---- MODULE Spec2Model ----
(***************************************************************************)
(* Model of srcanalysis (src/src/main.rs): the per-extension character     *)
(* accounting pipeline.  A directory is walked, every regular file is read *)
(* as UTF-8, normalized to NFC, segmented into extended grapheme clusters, *)
(* the leading scalar value of every cluster is tallied per file           *)
(* extension, and a report is printed per extension.                       *)
(*                                                                         *)
(* Spec is one execution of main.  SpecTwice is the program run twice in a  *)
(* row over one unchanged directory (run 1, then run 2 with fresh maps), so *)
(* that statements comparing two executions can be checked.  The u128      *)
(* counters are modelled as unbounded naturals: no reachable count comes   *)
(* near 2^128.  Steps are the iterations of the program's loops; the       *)
(* program is single-threaded, so nothing interleaves with them.           *)
(***************************************************************************)
EXTENDS Integers, Sequences, FiniteSets, TLC

\* Longest raw file content, in scalar values.
MaxLen == 2

\* The ASCII limit 0x7F of `codepoint <= 0x7F`.
AsciiMax == 127

\* The scalar values files are made of: LINE FEED (a control character),
\* LATIN SMALL LETTER E, LATIN SMALL LETTER E WITH ACUTE, COMBINING ACUTE ACCENT.
CP == [lf |-> 10, e |-> 101, eacute |-> 233, acute |-> 769]

Alphabet == {CP.lf, CP.e, CP.eacute, CP.acute}

\* File extensions; "" is what a path without extension yields.
Extensions == {"", "txt"}

\* The paths of the directory, in the order the walker yields them in run 1.
Listing == <<"a", "b">>

Paths == {Listing[i] : i \in DOMAIN Listing}

Texts == UNION {[1..n -> Alphabet] : n \in 0..MaxLen}

\* What the walker can yield for a path: a regular file (readable as UTF-8 text,
\* or failing with invalid UTF-8 or another I/O error), a non-file entry, or a
\* traversal error.
Entries ==
    [kind : {"file"}, extension : Extensions, read : {"ok"}, content : Texts]
    \cup [kind : {"file"}, extension : Extensions,
          read : {"invalid_utf8", "io_error"}, content : {<<>>}]
    \cup [kind : {"dir", "err"}, extension : {""}, read : {"ok"}, content : {<<>>}]

VARIABLES
    directory,                      \* path -> entry; never changes
    run,                            \* 1 or 2: which execution of main
    walk,                           \* the order in which this run's walker yields the paths
    pos,                            \* index into walk of the current entry
    pc,                             \* "walk", "graphemes", "report", "panicked"
    graphemes,                      \* clusters of the current file still to be visited
    codepoint_counts_by_extension,
    total_chars_by_extension,
    ascii_chars_by_extension,
    remaining,                      \* partitions the report loop has not yet printed
    stdout,                         \* the report blocks printed so far
    stderr,                         \* the warnings printed so far
    first                           \* what run 1 ended with

vars == <<directory, run, walk, pos, pc, graphemes, codepoint_counts_by_extension,
          total_chars_by_extension, ascii_chars_by_extension, remaining, stdout,
          stderr, first>>

maps == <<codepoint_counts_by_extension, total_chars_by_extension,
          ascii_chars_by_extension>>

----------------------------------------------------------------------------
\* HashMap

EmptyMap == [k \in {} |-> 0]

Get(m, k, default) == IF k \in DOMAIN m THEN m[k] ELSE default

\* entry(k).or_insert(v): the map with k present.
OrInsert(m, k, v) == IF k \in DOMAIN m THEN m ELSE m @@ (k :> v)

\* *m.entry(k).or_insert(0) += 1
Increment(m, k) == [OrInsert(m, k, 0) EXCEPT ![k] = @ + 1]

----------------------------------------------------------------------------
\* Unicode, restricted to Alphabet

\* char::is_control: general category Cc, U+0000..U+001F and U+007F..U+009F.
IsControl(c) == c <= 31 \/ (AsciiMax <= c /\ c <= 159)

GeneralCategory(c) ==
    CASE c = CP.lf -> "Cc"
      [] c = CP.e -> "Ll"
      [] c = CP.eacute -> "Ll"
      [] c = CP.acute -> "Mn"
      [] OTHER -> "Cn"

\* Grapheme_Cluster_Break = Extend.
IsExtend(c) == GeneralCategory(c) \in {"Mn", "Me"}

\* Canonical decomposition.
RECURSIVE Decompose(_)
Decompose(s) ==
    IF s = <<>> THEN <<>>
    ELSE (IF Head(s) = CP.eacute THEN <<CP.e, CP.acute>> ELSE <<Head(s)>>)
         \o Decompose(Tail(s))

\* Canonical composition: a combining acute directly after the starter e
\* composes with it; after anything else it stays.
RECURSIVE Compose(_, _)
Compose(out, s) ==
    IF s = <<>> THEN out
    ELSE IF Head(s) = CP.acute /\ out # <<>> /\ out[Len(out)] = CP.e
         THEN Compose(SubSeq(out, 1, Len(out) - 1) \o <<CP.eacute>>, Tail(s))
         ELSE Compose(Append(out, Head(s)), Tail(s))

\* content.nfc().collect::<String>()
Nfc(s) == Compose(<<>>, Decompose(s))

\* Extended grapheme clusters: no break before Extend (GB9) unless the
\* preceding scalar value is a control (GB4) or the text starts (GB1).
RECURSIVE Clusters(_, _)
Clusters(out, s) ==
    IF s = <<>> THEN out
    ELSE LET c == Head(s)
             n == Len(out)
         IN IF n > 0 /\ IsExtend(c) /\ ~IsControl(out[n][Len(out[n])])
            THEN Clusters([out EXCEPT ![n] = Append(@, c)], Tail(s))
            ELSE Clusters(Append(out, <<c>>), Tail(s))

\* normalized_content.graphemes(true)
Graphemes(s) == Clusters(<<>>, s)

\* Mutant of LeadingScalar: the last scalar value of the cluster is taken.
LastScalar(grapheme) == grapheme[Len(grapheme)]

\* grapheme.chars().next().unwrap()
LeadingScalar(grapheme) == grapheme[1]

\* Mutant of Accounted: the control-character test is dropped.
AccountedAlways(c) == TRUE

\* if !c.is_control()
Accounted(c) == ~IsControl(c)

\* Mutant of IsAscii: every one-byte value counts as ASCII.
IsAsciiLatin1(codepoint) == codepoint <= 255

\* codepoint <= 0x7F
IsAscii(codepoint) == codepoint <= AsciiMax

\* get_character_category
get_character_category(c) ==
    LET gc == GeneralCategory(c)
    IN IF gc \in {"Lu", "Ll", "Lt", "Lm", "Lo", "Nd", "Nl", "No"} THEN "Alphanumeric"
       ELSE IF gc = "Zs" THEN "Space"
       ELSE IF gc \in {"Pc", "Pd", "Ps", "Pe", "Pi", "Pf", "Po"} THEN "Punctuation"
       ELSE IF gc \in {"Sm", "Sc", "Sk", "So"} THEN "Symbol"
       ELSE "Other"

----------------------------------------------------------------------------
\* process_file: one iteration of the loop over the grapheme clusters.

\* Mutant of Account: the running totals are kept under one key for all partitions.
AccountSharedTotals(counts, total, ascii, extension, c) ==
    IF Accounted(c)
    THEN LET codepoint == c
             tallies == OrInsert(counts, extension, EmptyMap)
         IN [counts |-> [tallies EXCEPT ![extension] = Increment(@, codepoint)],
             total |-> Increment(total, ""),
             ascii |-> IF IsAscii(codepoint) THEN Increment(ascii, "") ELSE ascii]
    ELSE [counts |-> counts, total |-> total, ascii |-> ascii]

\* Mutant of Account: the partition's tally is created before the control test.
AccountHoistedEntry(counts, total, ascii, extension, c) ==
    LET codepoint == c
        tallies == OrInsert(counts, extension, EmptyMap)
    IN IF Accounted(c)
       THEN [counts |-> [tallies EXCEPT ![extension] = Increment(@, codepoint)],
             total |-> Increment(total, extension),
             ascii |-> IF IsAscii(codepoint) THEN Increment(ascii, extension)
                       ELSE ascii]
       ELSE [counts |-> tallies, total |-> total, ascii |-> ascii]

Account(counts, total, ascii, extension, c) ==
    IF Accounted(c)
    THEN LET codepoint == c
             tallies == OrInsert(counts, extension, EmptyMap)
         IN [counts |-> [tallies EXCEPT ![extension] = Increment(@, codepoint)],
             total |-> Increment(total, extension),
             ascii |-> IF IsAscii(codepoint) THEN Increment(ascii, extension)
                       ELSE ascii]
    ELSE [counts |-> counts, total |-> total, ascii |-> ascii]

----------------------------------------------------------------------------
\* The report

\* char::from_u32(codepoint).unwrap_or(char::REPLACEMENT_CHARACTER)
FromU32(codepoint) ==
    IF codepoint > 1114111 \/ (55296 <= codepoint /\ codepoint <= 57343)
    THEN 65533 ELSE codepoint

\* Mutant of OrderedBefore: the comparison is a.1.cmp(&b.1), ascending.
OrderedBeforeAscending(a, b) == a[2] < b[2]

\* The comparator of count_vec.sort_by(|a, b| b.1.cmp(&a.1)): a sorts strictly
\* before b when it answers Less.
OrderedBefore(a, b) == b[2] < a[2]

\* Insertion that keeps equal elements in their order of arrival.
RECURSIVE Insert(_, _)
Insert(s, x) ==
    IF s = <<>> THEN <<x>>
    ELSE IF OrderedBefore(x, Head(s)) THEN <<x>> \o s
         ELSE <<Head(s)>> \o Insert(Tail(s), x)

\* Vec::sort_by is a stable sort.
RECURSIVE SortByCount(_)
SortByCount(v) ==
    IF v = <<>> THEN <<>>
    ELSE Insert(SortByCount(SubSeq(v, 1, Len(v) - 1)), v[Len(v)])

\* codepoint_counts.into_iter().collect(): the entries of a tally in any of the
\* orders a HashMap may iterate in.
CountVecs(tally) ==
    LET pairs == {<<k, tally[k]>> : k \in DOMAIN tally}
        n == Cardinality(pairs)
    IN {v \in [1..n -> pairs] : \A i, j \in 1..n : i # j => v[i] # v[j]}

\* One printed character line.
Line(pair) ==
    LET codepoint == pair[1]
        character == FromU32(codepoint)
    IN [character |-> character,
        codepoint |-> codepoint,
        category |-> get_character_category(character),
        is_ascii |-> IsAscii(codepoint),
        count |-> pair[2]]

\* a as f64 / b as f64, kept as an exact fraction; 0/0 is NaN.
F64Div(a, b) ==
    IF b = 0
    THEN [class |-> IF a = 0 THEN "NaN" ELSE "inf", num |-> 0, den |-> 1]
    ELSE [class |-> "finite", num |-> a, den |-> b]

\* (ascii as f64 / total as f64) * 100.0
AsciiPercent(ascii_chars, total_chars) ==
    [F64Div(ascii_chars, total_chars) EXCEPT !.num = @ * 100]

\* 100.0 - ascii_percent
NonAsciiPercent(p) ==
    CASE p.class = "finite" -> [p EXCEPT !.num = 100 * p.den - @]
      [] p.class = "inf" -> [p EXCEPT !.class = "-inf"]
      [] OTHER -> p

\* {:.2}: the value in hundredths, rounded to nearest.
Fmt2(p) ==
    IF p.class = "finite"
    THEN [class |-> "finite", hundredths |-> (200 * p.num + p.den) \div (2 * p.den)]
    ELSE [class |-> p.class, hundredths |-> 0]

\* total_chars - ascii_chars on u128: an underflow (a panic in a debug build, a
\* wrapped value in a release build) is shown as a negative number.
U128Sub(a, b) == IF b <= a THEN a - b ELSE 0 - 1

\* One iteration of `for (extension, codepoint_counts) in ...`: the block printed.
Block(extension, count_vec, totals, asciis) ==
    LET sorted == SortByCount(count_vec)
        total_chars == Get(totals, extension, 0)
        ascii_chars == Get(asciis, extension, 0)
        ascii_percent == AsciiPercent(ascii_chars, total_chars)
    IN [extension |-> extension,
        lines |-> [i \in 1..Len(sorted) |-> Line(sorted[i])],
        ascii |-> ascii_chars,
        ascii_percent |-> Fmt2(ascii_percent),
        non_ascii |-> U128Sub(total_chars, ascii_chars),
        non_ascii_percent |-> Fmt2(NonAsciiPercent(ascii_percent))]

----------------------------------------------------------------------------
\* Initial state: main has created its three empty maps.

NoFirst == [done |-> FALSE, counts |-> EmptyMap, total |-> EmptyMap,
            ascii |-> EmptyMap, stdout |-> <<>>]

Init ==
    /\ directory \in [Paths -> Entries]
    /\ run = 1
    /\ walk = Listing
    /\ pos = 1
    /\ pc = "walk"
    /\ graphemes = <<>>
    /\ codepoint_counts_by_extension = EmptyMap
    /\ total_chars_by_extension = EmptyMap
    /\ ascii_chars_by_extension = EmptyMap
    /\ remaining = {}
    /\ stdout = <<>>
    /\ stderr = <<>>
    /\ first = NoFirst

Entry == directory[walk[pos]]

\* Mutant of CurrentExtension: the extension is computed once, before the loop.
StaleExtension == directory[walk[1]].extension

\* path.extension().unwrap_or_default().to_string_lossy().to_string()
CurrentExtension == Entry.extension

AtEntry == pc = "walk" /\ pos <= Len(walk)

Finished == pc = "report" /\ remaining = {}

\* entry.unwrap() on a traversal error: the run panics.
WalkError ==
    /\ AtEntry
    /\ Entry.kind = "err"
    /\ pc' = "panicked"
    /\ UNCHANGED <<directory, run, walk, pos, graphemes, maps, remaining, stdout,
                   stderr, first>>

\* path.is_file() is false: the entry is passed over.
WalkSkip ==
    /\ AtEntry
    /\ Entry.kind = "dir"
    /\ pos' = pos + 1
    /\ UNCHANGED <<directory, run, walk, pc, graphemes, maps, remaining, stdout,
                   stderr, first>>

\* process_file, Ok arm: the content is normalized and segmented.
ReadOk ==
    /\ AtEntry
    /\ Entry.kind = "file"
    /\ Entry.read = "ok"
    /\ graphemes' = Graphemes(Nfc(Entry.content))
    /\ pc' = "graphemes"
    /\ UNCHANGED <<directory, run, walk, pos, maps, remaining, stdout, stderr, first>>

\* Mutant of ReadErr: the read error is unwrapped and the run panics.
ReadErrPanics ==
    /\ AtEntry
    /\ Entry.kind = "file"
    /\ Entry.read # "ok"
    /\ pc' = "panicked"
    /\ UNCHANGED <<directory, run, walk, pos, graphemes, maps, remaining, stdout,
                   stderr, first>>

\* process_file, Err arm: a warning naming the path and the error.
ReadErr ==
    /\ AtEntry
    /\ Entry.kind = "file"
    /\ Entry.read # "ok"
    /\ stderr' = Append(stderr, [path |-> walk[pos], error |-> Entry.read])
    /\ pos' = pos + 1
    /\ UNCHANGED <<directory, run, walk, pc, graphemes, maps, remaining, stdout, first>>

\* One iteration of the loop over the grapheme clusters.
AccountGrapheme ==
    /\ pc = "graphemes"
    /\ graphemes # <<>>
    /\ LET new == Account(codepoint_counts_by_extension, total_chars_by_extension,
                          ascii_chars_by_extension, CurrentExtension,
                          LeadingScalar(Head(graphemes)))
       IN /\ codepoint_counts_by_extension' = new.counts
          /\ total_chars_by_extension' = new.total
          /\ ascii_chars_by_extension' = new.ascii
    /\ graphemes' = Tail(graphemes)
    /\ UNCHANGED <<directory, run, walk, pos, pc, remaining, stdout, stderr, first>>

\* The loop over the clusters ends: process_file returns to the walk.
EndOfFile ==
    /\ pc = "graphemes"
    /\ graphemes = <<>>
    /\ pc' = "walk"
    /\ pos' = pos + 1
    /\ UNCHANGED <<directory, run, walk, graphemes, maps, remaining, stdout, stderr,
                   first>>

\* The walk is exhausted: the report loop starts over the keys of the tally map.
WalkDone ==
    /\ pc = "walk"
    /\ pos > Len(walk)
    /\ pc' = "report"
    /\ remaining' = DOMAIN codepoint_counts_by_extension
    /\ UNCHANGED <<directory, run, walk, pos, graphemes, maps, stdout, stderr, first>>

\* One iteration of the report loop, for whichever partition the HashMap yields
\* next, its tally collected in whichever order its HashMap iterates.
ReportPartition ==
    /\ pc = "report"
    /\ \E extension \in remaining :
         \E count_vec \in CountVecs(codepoint_counts_by_extension[extension]) :
            /\ stdout' = Append(stdout, Block(extension, count_vec,
                                              total_chars_by_extension,
                                              ascii_chars_by_extension))
            /\ remaining' = remaining \ {extension}
    /\ UNCHANGED <<directory, run, walk, pos, pc, graphemes, maps, stderr, first>>

\* Mutant of Restart: the maps are process-wide state that outlives the run.
RestartKeepingMaps ==
    /\ run = 1
    /\ Finished
    /\ run' = 2
    /\ first' = [done |-> TRUE,
                 counts |-> codepoint_counts_by_extension,
                 total |-> total_chars_by_extension,
                 ascii |-> ascii_chars_by_extension,
                 stdout |-> stdout]
    /\ walk' \in {w \in [DOMAIN Listing -> Paths] :
                    \A i, j \in DOMAIN Listing : i # j => w[i] # w[j]}
    /\ pos' = 1
    /\ pc' = "walk"
    /\ stdout' = <<>>
    /\ stderr' = <<>>
    /\ UNCHANGED <<directory, graphemes, remaining, maps>>

\* The program is run again on the unchanged directory: new empty maps, and the
\* walker yields the same entries, in the same or in another order.
Restart ==
    /\ run = 1
    /\ Finished
    /\ run' = 2
    /\ first' = [done |-> TRUE,
                 counts |-> codepoint_counts_by_extension,
                 total |-> total_chars_by_extension,
                 ascii |-> ascii_chars_by_extension,
                 stdout |-> stdout]
    /\ walk' \in {w \in [DOMAIN Listing -> Paths] :
                    \A i, j \in DOMAIN Listing : i # j => w[i] # w[j]}
    /\ pos' = 1
    /\ pc' = "walk"
    /\ codepoint_counts_by_extension' = EmptyMap
    /\ total_chars_by_extension' = EmptyMap
    /\ ascii_chars_by_extension' = EmptyMap
    /\ stdout' = <<>>
    /\ stderr' = <<>>
    /\ UNCHANGED <<directory, graphemes, remaining>>

\* One execution of main.
Next ==
    \/ WalkError
    \/ WalkSkip
    \/ ReadOk
    \/ ReadErr
    \/ AccountGrapheme
    \/ EndOfFile
    \/ WalkDone
    \/ ReportPartition

\* Two executions of main, one after the other.
NextTwice == Next \/ Restart

Spec == Init /\ [][Next]_vars

SpecTwice == Init /\ [][NextTwice]_vars

----------------------------------------------------------------------------
\* Vocabulary of the properties

RECURSIVE SumOver(_, _)
SumOver(f, S) ==
    IF S = {} THEN 0
    ELSE LET k == CHOOSE x \in S : TRUE IN f[k] + SumOver(f, S \ {k})

TallyOf(e) == Get(codepoint_counts_by_extension, e, EmptyMap)

TallyCount(e, c) == Get(TallyOf(e), c, 0)

TotalOf(e) == Get(total_chars_by_extension, e, 0)

AsciiOf(e) == Get(ascii_chars_by_extension, e, 0)

\* Everything the three maps hold for partition e, presence of the key included.
Partition(e) ==
    <<e \in DOMAIN codepoint_counts_by_extension, TallyOf(e),
      e \in DOMAIN total_chars_by_extension, TotalOf(e),
      e \in DOMAIN ascii_chars_by_extension, AsciiOf(e)>>

\* The clusters of the file the walk is at.
FileClusters == Graphemes(Nfc(Entry.content))

\* The file the walk is at has been read and all its clusters visited.
FileConsumed == pc = "graphemes" /\ graphemes = <<>>

\* The leading scalar values of the clusters of every path's content.
Leads ==
    [p \in Paths |->
        LET g == Graphemes(Nfc(directory[p].content))
        IN [i \in DOMAIN g |-> g[i][1]]]

\* The clusters of the readable files with extension e, as (path, index) pairs.
ClusterPositions(leads, e) ==
    UNION {{<<p, i>> : i \in DOMAIN leads[p]} :
           p \in {q \in Paths : /\ directory[q].kind = "file"
                                /\ directory[q].read = "ok"
                                /\ directory[q].extension = e}}

\* How often c leads a cluster of the readable files with extension e: what
\* the directory, which no step changes, should contribute to the tally entry
\* (e, c).
ExpectedCount(e, c) ==
    LET leads == Leads
    IN IF IsControl(c) THEN 0
       ELSE Cardinality({x \in ClusterPositions(leads, e) : leads[x[1]][x[2]] = c})

ExpectedTotal(e) ==
    LET leads == Leads
    IN Cardinality({x \in ClusterPositions(leads, e) : ~IsControl(leads[x[1]][x[2]])})

ExpectedAscii(e) ==
    LET leads == Leads
    IN Cardinality({x \in ClusterPositions(leads, e) :
                       /\ ~IsControl(leads[x[1]][x[2]])
                       /\ leads[x[1]][x[2]] <= AsciiMax})

SecondRunFinished == run = 2 /\ Finished

----------------------------------------------------------------------------
\* C1: in every state, for every partition key e, total_chars_by_extension[e]
\* is the sum of all counts of codepoint_counts_by_extension[e], and
\* ascii_chars_by_extension[e] (0 when absent) is the sum of the counts of the
\* codepoints <= 0x7F.
C1_CountersAgreeWithTally ==
    \A e \in Extensions :
        /\ TotalOf(e) = SumOver(TallyOf(e), DOMAIN TallyOf(e))
        /\ AsciiOf(e) = SumOver(TallyOf(e), {k \in DOMAIN TallyOf(e) : k <= AsciiMax})

\* A partition holding ASCII and non-ASCII characters, after a file failed to read.
C1_Witness ==
    /\ stderr # <<>>
    /\ \E e \in Extensions : 0 < AsciiOf(e) /\ AsciiOf(e) < TotalOf(e)

\* C2: no tally ever has a control character as a key, and visiting a cluster
\* whose leading scalar value is a control character changes none of the maps.
C2_NoControlCounted ==
    [][/\ \A e \in DOMAIN codepoint_counts_by_extension' :
            \A k \in DOMAIN codepoint_counts_by_extension'[e] : ~IsControl(k)
       /\ (pc = "graphemes" /\ graphemes # <<>> /\ IsControl(Head(graphemes)[1]))
            => (maps' = maps /\ graphemes' = Tail(graphemes))]_vars

\* A file with a control-led cluster and a counted cluster has been consumed.
C2_Witness ==
    /\ FileConsumed
    /\ \E i \in DOMAIN FileClusters : IsControl(FileClusters[i][1])
    /\ \E i \in DOMAIN FileClusters : ~IsControl(FileClusters[i][1])
    /\ TotalOf(Entry.extension) > 0

\* C3: a failed read appends one warning naming the path, leaves all maps (and
\* the report) as they were and moves the walk on to the next entry; and when
\* the run finishes every readable file has been accounted and one block per
\* partition has been printed.
C3_ReadFailureSkipsFile ==
    [][/\ (AtEntry /\ Entry.kind = "file" /\ Entry.read # "ok")
            => /\ maps' = maps
               /\ stderr' = Append(stderr, [path |-> walk[pos], error |-> Entry.read])
               /\ stdout' = stdout
               /\ pc' = "walk"
               /\ pos' = pos + 1
       /\ Finished'
            => /\ pos' = Len(walk') + 1
               /\ \A e \in Extensions : \A c \in Alphabet :
                      TallyCount(e, c)' = ExpectedCount(e, c)
               /\ Len(stdout') = Cardinality(DOMAIN codepoint_counts_by_extension')
               /\ {stdout'[i].extension : i \in DOMAIN stdout'}
                      = DOMAIN codepoint_counts_by_extension']_vars

\* A run that finished with its report although the first file walked failed
\* to read and a later one was tallied.
C3_Witness ==
    /\ Finished
    /\ directory[walk[1]].kind = "file"
    /\ directory[walk[1]].read # "ok"
    /\ Len(stderr) = 1
    /\ stderr[1].path = walk[1]
    /\ directory[walk[2]].kind = "file"
    /\ TotalOf(directory[walk[2]].extension) > 0
    /\ stdout # <<>>

\* C4: while a file with extension e is processed, nothing the maps hold for
\* any other partition changes; and at the end of the run partition e holds
\* exactly what the files with extension e contribute.
C4_PartitionsIndependent ==
    [][/\ ((AtEntry \/ pc = "graphemes") /\ Entry.kind = "file")
            => \A e \in Extensions \ {Entry.extension} : Partition(e)' = Partition(e)
       /\ Finished'
            => \A e \in Extensions :
                  /\ \A c \in Alphabet : TallyCount(e, c)' = ExpectedCount(e, c)
                  /\ TotalOf(e)' = ExpectedTotal(e)
                  /\ AsciiOf(e)' = ExpectedAscii(e)]_vars

\* A finished run with two partitions holding different characters.
C4_Witness ==
    /\ Finished
    /\ DOMAIN codepoint_counts_by_extension = Extensions
    /\ \E e1, e2 \in Extensions :
          DOMAIN TallyOf(e1) \cap DOMAIN TallyOf(e2) = {}

\* C5: in every printed block the character lines are in non-increasing order
\* of count, and the (codepoint, count) pairs printed are exactly the entries of
\* the partition's tally, each once.
C5_ReportSortedAndComplete ==
    \A i \in DOMAIN stdout :
        LET lines == stdout[i].lines
            tally == TallyOf(stdout[i].extension)
        IN /\ \A j \in 1..(Len(lines) - 1) : lines[j].count >= lines[j + 1].count
           /\ Len(lines) = Cardinality(DOMAIN tally)
           /\ {<<lines[j].codepoint, lines[j].count>> : j \in DOMAIN lines}
                  = {<<k, tally[k]>> : k \in DOMAIN tally}

\* A block of three lines with a strictly larger count first and a tie after it.
C5_Witness ==
    \E i \in DOMAIN stdout :
        LET lines == stdout[i].lines
        IN /\ Len(lines) = 3
           /\ lines[1].count > lines[2].count
           /\ lines[2].count = lines[3].count

\* The blocks of two reports agree up to the order of the blocks and the order
\* of the lines within a block; the sequence of counts of a block is the same.
SameBlocks(r1, r2) ==
    /\ Len(r1) = Len(r2)
    /\ \A i \in DOMAIN r1 : \E j \in DOMAIN r2 :
          /\ r2[j].extension = r1[i].extension
          /\ r2[j].ascii = r1[i].ascii
          /\ r2[j].non_ascii = r1[i].non_ascii
          /\ r2[j].ascii_percent = r1[i].ascii_percent
          /\ r2[j].non_ascii_percent = r1[i].non_ascii_percent
          /\ Len(r2[j].lines) = Len(r1[i].lines)
          /\ {r2[j].lines[k] : k \in DOMAIN r2[j].lines}
                 = {r1[i].lines[k] : k \in DOMAIN r1[i].lines}
          /\ \A k \in DOMAIN r1[i].lines : r2[j].lines[k].count = r1[i].lines[k].count

\* C6 as stated: a second run over the unchanged directory, walked in the same
\* order, ends with the same tallies and counters and prints the same sequence
\* of blocks with the same sequence of lines.
C6_IdenticalReport ==
    (SecondRunFinished /\ walk = Listing)
        => /\ codepoint_counts_by_extension = first.counts
           /\ total_chars_by_extension = first.total
           /\ ascii_chars_by_extension = first.ascii
           /\ stdout = first.stdout

\* C6 as amended: the second run ends with the same tallies and counters, and
\* its report has the same blocks with the same summaries, the same lines and
\* the same sequence of counts; the order of the blocks and the order of lines
\* of equal count may differ.
C6_SameUpToOrder ==
    (SecondRunFinished /\ walk = Listing)
        => /\ codepoint_counts_by_extension = first.counts
           /\ total_chars_by_extension = first.total
           /\ ascii_chars_by_extension = first.ascii
           /\ SameBlocks(first.stdout, stdout)
           /\ SameBlocks(stdout, first.stdout)

\* A second run in the same walk order whose report has two blocks and differs
\* from the first run's.
C6_Witness ==
    /\ SecondRunFinished
    /\ walk = Listing
    /\ Len(stdout) = 2
    /\ stdout # first.stdout

\* C7 as stated: at the end of a run, every extension of an enumerated file for
\* which zero characters were tallied has a summary in the report, with both
\* percentages the defined number 0.00; and no printed percentage is NaN.
C7_ZeroTotalSummary ==
    Finished =>
        /\ \A p \in Paths :
              (directory[p].kind = "file" /\ TotalOf(directory[p].extension) = 0)
                  => \E i \in DOMAIN stdout :
                        /\ stdout[i].extension = directory[p].extension
                        /\ stdout[i].ascii_percent = [class |-> "finite", hundredths |-> 0]
                        /\ stdout[i].non_ascii_percent
                               = [class |-> "finite", hundredths |-> 0]
        /\ \A i \in DOMAIN stdout :
              /\ stdout[i].ascii_percent.class = "finite"
              /\ stdout[i].non_ascii_percent.class = "finite"

\* C8: a second run that walks the same entries in any order ends with the
\* same tally, total_chars and ascii_chars for every partition.
C8_OrderIndependent ==
    SecondRunFinished
        => /\ codepoint_counts_by_extension = first.counts
           /\ total_chars_by_extension = first.total
           /\ ascii_chars_by_extension = first.ascii

\* A second run that walked two tallied files of different extensions in the
\* other order.
C8_Witness ==
    /\ SecondRunFinished
    /\ walk # Listing
    /\ \A p \in Paths : directory[p].kind = "file" /\ directory[p].read = "ok"
    /\ directory[walk[1]].extension # directory[walk[2]].extension
    /\ \A e \in Extensions : TotalOf(e) > 0

\* C9: visiting a cluster whose leading scalar value c is not a control
\* character consumes the whole cluster, adds exactly 1 to the tally entry of c
\* in the file's partition (creating it at 1), exactly 1 to total_chars, exactly
\* 1 to ascii_chars iff c <= 0x7F, and changes no other tally entry or counter;
\* and within a run no count or counter ever decreases.
C9_OneStepPerCluster ==
    [][/\ (pc = "graphemes" /\ graphemes # <<>> /\ ~IsControl(Head(graphemes)[1]))
            => \A c \in {Head(graphemes)[1]}, e \in {Entry.extension} :
                  /\ graphemes' = Tail(graphemes)
                  /\ TallyCount(e, c)' = TallyCount(e, c) + 1
                  /\ DOMAIN TallyOf(e)' = DOMAIN TallyOf(e) \cup {c}
                  /\ \A c2 \in Alphabet \ {c} : TallyCount(e, c2)' = TallyCount(e, c2)
                  /\ TotalOf(e)' = TotalOf(e) + 1
                  /\ AsciiOf(e)' = AsciiOf(e) + (IF c <= AsciiMax THEN 1 ELSE 0)
                  /\ \A e2 \in Extensions \ {e} : Partition(e2)' = Partition(e2)
       /\ run' = run
            => \A e \in Extensions :
                  /\ TotalOf(e)' >= TotalOf(e)
                  /\ AsciiOf(e)' >= AsciiOf(e)
                  /\ \A c \in Alphabet : TallyCount(e, c)' >= TallyCount(e, c)]_vars

\* A consumed file with a cluster of two scalar values led by a counted one.
C9_Witness ==
    /\ FileConsumed
    /\ \E i \in DOMAIN FileClusters :
          /\ Len(FileClusters[i]) = 2
          /\ ~IsControl(FileClusters[i][1])
          /\ FileClusters[i][1] # FileClusters[i][2]
          /\ TallyCount(Entry.extension, FileClusters[i][1]) > 0

\* C10: the tally map and the total map have the same keys, the keys of the
\* ascii map are among them, every tally present is non-empty with counts >= 1,
\* every total present is >= 1 and no ascii count exceeds its total; so every
\* printed block has a total, finite percentages and a non-negative non-ASCII
\* count.
C10_KeySets ==
    /\ DOMAIN codepoint_counts_by_extension = DOMAIN total_chars_by_extension
    /\ DOMAIN ascii_chars_by_extension \subseteq DOMAIN total_chars_by_extension
    /\ \A e \in DOMAIN codepoint_counts_by_extension :
          /\ DOMAIN codepoint_counts_by_extension[e] # {}
          /\ \A k \in DOMAIN codepoint_counts_by_extension[e] :
                codepoint_counts_by_extension[e][k] >= 1
          /\ total_chars_by_extension[e] >= 1
          /\ AsciiOf(e) <= total_chars_by_extension[e]
    /\ \A i \in DOMAIN stdout :
          /\ stdout[i].extension \in DOMAIN total_chars_by_extension
          /\ stdout[i].ascii_percent.class = "finite"
          /\ stdout[i].non_ascii_percent.class = "finite"
          /\ stdout[i].non_ascii >= 0

\* A printed block of a partition that has no ASCII character at all, in a
\* directory that also holds a file that contributed nothing.
C10_Witness ==
    /\ \E i \in DOMAIN stdout :
          stdout[i].extension \notin DOMAIN ascii_chars_by_extension
    /\ \E p \in Paths :
          /\ directory[p].kind = "file"
          /\ directory[p].extension \notin DOMAIN codepoint_counts_by_extension

====
